---- MODULE Spec2Model ----
(***************************************************************************)
(* A model of the CBOR codec of src/modcbor.c (MicroPython module "cbor"). *)
(*                                                                         *)
(* Host values (mp_obj_t) are records tagged by their type:                *)
(*   [t |-> "none"]  [t |-> "bool", b]  [t |-> "int", neg, mag]            *)
(*   [t |-> "float", bits]  [t |-> "bytes", s]  [t |-> "str", s]           *)
(*   [t |-> "list", items]  [t |-> "dict", pairs]                          *)
(* An int is a sign and a magnitude: the magnitude is a big-endian         *)
(* sequence of bytes without leading zeros (<<>> is 0), so that 2^32, 2^64 *)
(* and larger values are exact.  A float is the 8 bytes of an IEEE-754     *)
(* double, most significant first; i8(d, k) is the code's fp_dp.i8[k] on   *)
(* the little-endian host the code is written for.  The host is the 64-bit *)
(* build: mp_int_t has 64 bits and a small int has 63.                     *)
(***************************************************************************)
EXTENDS Integers, Sequences, FiniteSets, TLC

VARIABLES pc, canonical, heap, obj, item, trail, data, alt, result, solo

vars == <<pc, canonical, heap, obj, item, trail, data, alt, result, solo>>

(***************************************************************************)
(* Bounds of the model.                                                    *)
(***************************************************************************)
\* Period of the pattern of bytes that uninitialised memory holds.
HeapPeriod == 2
\* Number of bytes or items the host's allocator gives one object before
\* it raises MemoryError.
HeapLimit == 40
\* Number of nested cbor_loads calls the C stack holds before it overflows.
StackLimit == 6

Byte == 0..255

\* The values an uninitialised or stale byte of memory is drawn from.
JunkBytes == {0, 129, 255}

(***************************************************************************)
(* Bytes and magnitudes.                                                   *)
(***************************************************************************)
Pow2(k) == 2 ^ k

\* x >> k and x & (2^k - 1) on non-negative numbers.
Shr(x, k) == x \div Pow2(k)

LowBits(x, k) == x % Pow2(k)

RECURSIVE BitOr(_, _)
BitOr(a, b) ==
    IF a = 0 THEN b
    ELSE IF b = 0 THEN a
    ELSE (IF a % 2 = 1 \/ b % 2 = 1 THEN 1 ELSE 0) + 2 * BitOr(a \div 2, b \div 2)

Zeros(n) == [i \in 1..n |-> 0]

RECURSIVE Strip(_)
Strip(s) == IF s # <<>> /\ Head(s) = 0 THEN Strip(Tail(s)) ELSE s

\* Magnitude of a natural number below 2^31.
RECURSIVE NatToMag(_)
NatToMag(n) == IF n = 0 THEN <<>> ELSE Append(NatToMag(n \div 256), n % 256)

\* The number a magnitude of at most 3 bytes stands for.
RECURSIVE MagToNat(_)
MagToNat(m) ==
    IF m = <<>> THEN 0 ELSE 256 * MagToNat(SubSeq(m, 1, Len(m) - 1)) + m[Len(m)]

RECURSIVE SeqLess(_, _)
SeqLess(a, b) ==
    IF b = <<>> THEN FALSE
    ELSE IF a = <<>> THEN TRUE
    ELSE IF Head(a) # Head(b) THEN Head(a) < Head(b)
    ELSE SeqLess(Tail(a), Tail(b))

MagLess(a, b) == Len(a) < Len(b) \/ (Len(a) = Len(b) /\ SeqLess(a, b))

MagLeq(a, b) == a = b \/ MagLess(a, b)

\* a + 1 and a - 1 on byte sequences of a fixed length, wrapping around.
RECURSIVE IncFixed(_)
IncFixed(s) ==
    IF s = <<>> THEN <<>>
    ELSE LET n == Len(s)
         IN IF s[n] < 255 THEN [s EXCEPT ![n] = s[n] + 1]
            ELSE Append(IncFixed(SubSeq(s, 1, n - 1)), 0)

RECURSIVE DecFixed(_)
DecFixed(s) ==
    IF s = <<>> THEN <<>>
    ELSE LET n == Len(s)
         IN IF s[n] > 0 THEN [s EXCEPT ![n] = s[n] - 1]
            ELSE Append(DecFixed(SubSeq(s, 1, n - 1)), 255)

MagInc(m) == Strip(IncFixed(<<0>> \o m))

MagDec(m) == Strip(DecFixed(m))

\* The low `size` bytes of a magnitude, big-endian, zero-extended.
BigEndian(m, size) ==
    IF Len(m) >= size THEN SubSeq(m, Len(m) - size + 1, Len(m))
    ELSE Zeros(size - Len(m)) \o m

\* m >> 1.
ShrMag1(m) ==
    Strip([i \in 1..Len(m) |->
              (m[i] \div 2) + (IF i > 1 /\ m[i - 1] % 2 = 1 THEN 128 ELSE 0)])

(***************************************************************************)
(* Host values.                                                            *)
(***************************************************************************)
VNone == [t |-> "none"]

VBool(b) == [t |-> "bool", b |-> b]

VInt(neg, mag) == [t |-> "int", neg |-> neg, mag |-> mag]

VFloat(bits) == [t |-> "float", bits |-> bits]

VBytes(s) == [t |-> "bytes", s |-> s]

VStr(s) == [t |-> "str", s |-> s]

VList(items) == [t |-> "list", items |-> items]

VDict(pairs) == [t |-> "dict", pairs |-> pairs]

\* mp_obj_new_int of a natural number below 2^31.
mp_obj_new_int(n) == VInt(FALSE, NatToMag(n))

\* 2^62, the first magnitude that is no small int on the 64-bit build.
SmallIntLimit == <<64, 0, 0, 0, 0, 0, 0, 0>>

\* MP_OBJ_IS_SMALL_INT: -2^62 <= x < 2^62.
MP_OBJ_IS_SMALL_INT(x) ==
    IF x.neg THEN MagLeq(x.mag, SmallIntLimit) ELSE MagLess(x.mag, SmallIntLimit)

(***************************************************************************)
(* vstr: the growing output buffer of the encoder.                         *)
(***************************************************************************)
vstr_add_byte(vs, b) == Append(vs, b)

\* vstr_add_len extends the buffer by n bytes it does not initialise: they
\* hold what the heap held.
vstr_add_len(vs, n) ==
    vs \o [i \in 1..n |-> heap[(Len(vs) + i - 1) % HeapPeriod]]

vstr_add_strn(vs, s) == vs \o s

\* Store `bytes` at buf + off.
StoreAt(vs, off, bytes) ==
    [i \in 1..Len(vs) |->
        IF i - 1 >= off /\ i - 1 < off + Len(bytes) THEN bytes[i - off] ELSE vs[i]]

\* mp_binary_set_int(size, big_endian = 1, p, val).
mp_binary_set_int(size, val) == BigEndian(val, size)

(***************************************************************************)
(* Encoder: integers.                                                      *)
(***************************************************************************)
\* int_bit_length: shift the magnitude right until nothing is left.
RECURSIVE BitLengthLoop(_, _)
BitLengthLoop(m, num_bits) ==
    IF m = <<>> THEN num_bits ELSE BitLengthLoop(ShrMag1(m), num_bits + 1)

int_bit_length(x) == BitLengthLoop(x.mag, 0)

\* mpz_as_bytes(z, big_endian = 1, len, buf): the low len bytes of z, in
\* two's complement when z is negative.
mpz_as_bytes(z, len) ==
    IF z.neg /\ z.mag # <<>>
    THEN IncFixed([i \in 1..len |-> 255 - BigEndian(z.mag, len)[i]])
    ELSE BigEndian(z.mag, len)

cbor_dump_small_int(x, vs, mt0) ==
    LET mtn  == IF x.neg THEN 1 ELSE mt0
        dat  == IF x.neg THEN MagDec(x.mag) ELSE x.mag
        mt   == mtn * 32
        size == IF MagLeq(dat, <<255, 255>>) THEN 2
                ELSE IF MagLeq(dat, <<255, 255, 255, 255>>) THEN 4
                ELSE 8
        ai   == IF size = 2 THEN 25 ELSE IF size = 4 THEN 26 ELSE 27
    IN  IF MagLeq(dat, <<23>>)
        THEN vstr_add_byte(vs, BitOr(mt, MagToNat(dat)))
        ELSE IF MagLeq(dat, <<255>>)
        THEN vstr_add_byte(vstr_add_byte(vs, BitOr(mt, 24)), MagToNat(dat))
        ELSE StoreAt(vstr_add_len(vstr_add_byte(vs, BitOr(mt, ai)), size), 1,
                     mp_binary_set_int(size, dat))

cbor_dump_mpz(x, vs, mt) ==
    LET size == (int_bit_length(x) + 7) \div 8
        vs2  == vstr_add_len(vstr_add_byte(vs, BitOr(mt, 27)), size)
    IN  StoreAt(vs2, 1, mpz_as_bytes(x, Len(vs2) - 1))

cbor_dump_int_with_major_type(x, vs, mt) ==
    IF MP_OBJ_IS_SMALL_INT(x)
    THEN cbor_dump_small_int(x, vs, mt)
    ELSE cbor_dump_mpz(x, vs, mt)

cbor_dump_int(x, vs) == cbor_dump_int_with_major_type(x, vs, 0)

(***************************************************************************)
(* Encoder: floats.                                                        *)
(***************************************************************************)
\* fp_dp.i8[k] of the union, on a little-endian host.
i8(d, k) == d[8 - k]

signbit(d) == i8(d, 7) >= 128

\* exp of cbor_dump_float: the unbiased exponent field of the double.
DoubleExp(d) == ((i8(d, 7) % 128) * 16 + Shr(i8(d, 6), 4)) - 1023

MantissaIsZero(d) ==
    i8(d, 6) % 16 = 0 /\ \A k \in 0..5 : i8(d, k) = 0

isnan(d) == DoubleExp(d) = 1024 /\ ~MantissaIsZero(d)

isinf(d) == DoubleExp(d) = 1024 /\ MantissaIsZero(d)

\* A float as its 4 bytes, most significant first.
MakeFloat(sign, e8, m23) ==
    << sign * 128 + Shr(e8, 1),
       (e8 % 2) * 128 + Shr(m23, 16),
       Shr(m23, 8) % 256,
       m23 % 256 >>

\* A double whose low 29 mantissa bits are zero, from its sign, its biased
\* exponent and the high 23 bits of its mantissa.
MakeDouble(sign, e11, m23) ==
    << sign * 128 + Shr(e11, 4),
       (e11 % 16) * 16 + Shr(m23, 19),
       Shr(m23, 11) % 256,
       Shr(m23, 3) % 256,
       (m23 % 8) * 32,
       0, 0, 0 >>

\* (float)d for a double whose exponent is in the float's normal range:
\* round to nearest, ties to even; the rounding may carry into the exponent
\* and reach infinity.
FloatCast(d) ==
    LET sign == IF signbit(d) THEN 1 ELSE 0
        e8   == DoubleExp(d) + 127
        m23  == (i8(d, 6) % 16) * Pow2(19) + i8(d, 5) * Pow2(11)
                    + i8(d, 4) * 8 + Shr(i8(d, 3), 5)
        rest == (i8(d, 3) % 32) * Pow2(24) + i8(d, 2) * Pow2(16)
                    + i8(d, 1) * 256 + i8(d, 0)
        up   == rest > Pow2(28) \/ (rest = Pow2(28) /\ m23 % 2 = 1)
        m    == IF up THEN m23 + 1 ELSE m23
    IN  IF m = Pow2(23) THEN MakeFloat(sign, e8 + 1, 0) ELSE MakeFloat(sign, e8, m)

\* Index of the highest set bit of m > 0.
RECURSIVE HighBit(_)
HighBit(m) == IF m <= 1 THEN 0 ELSE 1 + HighBit(m \div 2)

\* (double)f for the 4 bytes of a float: exact for every float; a float
\* subnormal becomes a normal double.
FloatToDouble(f) ==
    LET sign == Shr(f[1], 7)
        e8   == (f[1] % 128) * 2 + Shr(f[2], 7)
        m23  == (f[2] % 128) * Pow2(16) + f[3] * 256 + f[4]
        k    == HighBit(m23)
    IN  IF e8 = 255 THEN MakeDouble(sign, 2047, m23)
        ELSE IF e8 > 0 THEN MakeDouble(sign, e8 - 127 + 1023, m23)
        ELSE IF m23 = 0 THEN MakeDouble(sign, 0, 0)
        ELSE MakeDouble(sign, k - 149 + 1023, (m23 - Pow2(k)) * Pow2(23 - k))

cbor_dump_double_big(d, vs) ==
    LET vs2 == vstr_add_len(vstr_add_byte(vs, 251), 8)
    IN  StoreAt(StoreAt(vs2, 1, SubSeq(d, 1, 4)), 5, SubSeq(d, 5, 8))

cbor_dump_float_big(d, vs) ==
    LET vs2 == vstr_add_len(vstr_add_byte(vs, 250), 4)
    IN  StoreAt(vs2, 1, FloatCast(d))

\* use_half_float without the test of the two low bits of i8[5].
use_half_float_five_bytes(d) == \A k \in 0..4 : i8(d, k) = 0

\* use_half_float of cbor_dump_float.
use_half_float(d) ==
    /\ \A k \in 0..4 : i8(d, k) = 0
    /\ i8(d, 5) % 4 = 0

\* The half float t that cbor_dump_float builds, as a number below 2^16.
HalfBits(d) ==
    (IF signbit(d) THEN Pow2(15) ELSE 0)
        + (DoubleExp(d) + 15) * Pow2(10)
        + (i8(d, 6) % 16) * 64
        + Shr(i8(d, 5), 2)

cbor_dump_half(d, vs) ==
    LET vs2 == vstr_add_len(vstr_add_byte(vs, 249), 2)
    IN  StoreAt(vs2, 1, mp_binary_set_int(2, NatToMag(HalfBits(d))))

cbor_dump_float(d, vs) ==
    LET exp == DoubleExp(d)
    IN  IF exp = -1023
        THEN vstr_add_byte(vstr_add_byte(vstr_add_byte(vs, 249),
                                         IF signbit(d) THEN 128 ELSE 0), 0)
        ELSE IF exp >= -14 /\ exp <= 15 /\ use_half_float(d)
        THEN cbor_dump_half(d, vs)
        ELSE IF exp >= -126 /\ exp <= 127 /\ FloatToDouble(FloatCast(d)) = d
        THEN cbor_dump_float_big(d, vs)
        ELSE IF exp = 1024
        THEN IF isnan(d)
             THEN vstr_add_byte(vstr_add_byte(vstr_add_byte(vs, 249), 126), 0)
             ELSE IF isinf(d)
             THEN vstr_add_byte(vstr_add_byte(vstr_add_byte(vs, 249),
                                              IF signbit(d) THEN 252 ELSE 124), 0)
             ELSE vs
        ELSE cbor_dump_double_big(d, vs)

(***************************************************************************)
(* Encoder: strings, containers and the dispatch.                          *)
(***************************************************************************)
cbor_dump_buffer_with_optional_major_type(s, vs, mt) ==
    vstr_add_strn(IF mt # -1
                  THEN cbor_dump_int_with_major_type(mp_obj_new_int(Len(s)), vs, mt)
                  ELSE vs,
                  s)

cbor_dump_buffer(s, vs) == cbor_dump_buffer_with_optional_major_type(s, vs, -1)

cbor_dump_bool(x, vs) == vstr_add_byte(vs, IF x.b THEN 245 ELSE 244)

cbor_dump_none(x, vs) == vstr_add_byte(vs, 246)

cbor_dump_bytes(x, vs) == cbor_dump_buffer_with_optional_major_type(x.s, vs, 2)

cbor_dump_text(x, vs) == cbor_dump_buffer_with_optional_major_type(x.s, vs, 3)

\* cbor_sort_key: (first byte of the encoded key, its length, the key).
cbor_sort_key(entry) == << SubSeq(entry[1], 1, 1), Len(entry[1]), entry[1] >>

\* The host's < on two sort keys, element by element.
SortKeyLess(a, b) ==
    IF a[1] # b[1] THEN SeqLess(a[1], b[1])
    ELSE IF a[2] # b[2] THEN a[2] < b[2]
    ELSE SeqLess(a[3], b[3])

\* mp_obj_list_sort with key = cbor_sort_key: ascending by key; entries
\* whose keys are equal keep the order they came in.
RECURSIVE InsertSorted(_, _)
InsertSorted(sorted, e) ==
    IF sorted = <<>> THEN <<e>>
    ELSE IF SortKeyLess(cbor_sort_key(e), cbor_sort_key(Head(sorted)))
    THEN <<e>> \o sorted
    ELSE <<Head(sorted)>> \o InsertSorted(Tail(sorted), e)

\* mp_obj_list_sort that leaves the list as it is.
mp_obj_list_sort_as_given(items) == items

RECURSIVE mp_obj_list_sort(_)
mp_obj_list_sort(items) ==
    IF items = <<>> THEN <<>>
    ELSE InsertSorted(mp_obj_list_sort(SubSeq(items, 1, Len(items) - 1)),
                      items[Len(items)])

RECURSIVE cbor_dumps(_, _, _)
RECURSIVE DumpItems(_, _, _, _)
RECURSIVE DumpPairs(_, _, _, _)
RECURSIVE EncodedPairs(_, _)

\* The loop of cbor_dump_list from item i on.
DumpItems(items, i, vs, canon) ==
    IF i > Len(items) THEN vs
    ELSE DumpItems(items, i + 1, cbor_dumps(items[i], vs, canon), canon)

cbor_dump_list(x, vs, canon) ==
    DumpItems(x.items, 1,
              cbor_dump_int_with_major_type(mp_obj_new_int(Len(x.items)), vs, 4),
              canon)

\* The loop of cbor_dump_dict without MICROPY_PY_UCBOR_CANONICAL.
DumpPairs(pairs, i, vs, canon) ==
    IF i > Len(pairs) THEN vs
    ELSE DumpPairs(pairs, i + 1,
                   cbor_dumps(pairs[i][2], cbor_dumps(pairs[i][1], vs, canon), canon),
                   canon)

\* The first loop with MICROPY_PY_UCBOR_CANONICAL: each key and each value
\* is encoded into a buffer of its own (cbor_dumps(x, NULL)).
EncodedPairs(pairs, canon) ==
    [i \in 1..Len(pairs) |->
        << cbor_dumps(pairs[i][1], <<>>, canon), cbor_dumps(pairs[i][2], <<>>, canon) >>]

\* The second loop: the sorted entries are appended as they are.
RECURSIVE DumpSorted(_, _, _)
DumpSorted(entries, i, vs) ==
    IF i > Len(entries) THEN vs
    ELSE DumpSorted(entries, i + 1,
                    cbor_dump_buffer(entries[i][2], cbor_dump_buffer(entries[i][1], vs)))

cbor_dump_dict(x, vs, canon) ==
    LET vs1 == cbor_dump_int_with_major_type(mp_obj_new_int(Len(x.pairs)), vs, 5)
    IN  IF canon
        THEN DumpSorted(mp_obj_list_sort(EncodedPairs(x.pairs, canon)), 1, vs1)
        ELSE DumpPairs(x.pairs, 1, vs1, canon)

\* cbor_dumps(obj_data, data_vstr): the buffer after obj_data was written
\* to it; data_vstr = NULL is the empty buffer <<>>.
cbor_dumps(x, vs, canon) ==
    CASE x.t = "int"   -> cbor_dump_int(x, vs)
      [] x.t = "float" -> cbor_dump_float(x.bits, vs)
      [] x.t = "bool"  -> cbor_dump_bool(x, vs)
      [] x.t = "none"  -> cbor_dump_none(x, vs)
      [] x.t = "str"   -> cbor_dump_text(x, vs)
      [] x.t = "bytes" -> cbor_dump_bytes(x, vs)
      [] x.t = "list"  -> cbor_dump_list(x, vs, canon)
      [] x.t = "dict"  -> cbor_dump_dict(x, vs, canon)

cbor_encode(x, canon) == cbor_dumps(x, <<>>, canon)

(***************************************************************************)
(* Decoder.  The decoder's vstr is [buf, len]: buf is the memory from      *)
(* data_vstr->buf on, len is data_vstr->len.  vstr_cut_head_bytes moves    *)
(* the bytes that are left to the front and lowers len; the memory past    *)
(* len keeps what it held.  Memory past the bytes that decode was given    *)
(* holds what the heap held.  The decoder's state ds also records whether  *)
(* a byte at or past len was read (oob) and the header bytes cbor_loads    *)
(* read (hdrs).  An operation yields [kind, val, ds]: kind is "ok" (val is *)
(* the value), "err" (an exception was raised) or "crash" (the C stack     *)
(* overflowed).                                                            *)
(***************************************************************************)
Peek(vs, i) == IF i < Len(vs.buf) THEN vs.buf[i + 1] ELSE heap[i % HeapPeriod]

ReadBytes(vs, n) == [i \in 1..n |-> Peek(vs, i - 1)]

vstr_cut_head_bytes(vs, n) ==
    IF 0 >= vs.len THEN vs
    ELSE IF n >= vs.len THEN [vs EXCEPT !.len = 0]
    ELSE [buf |-> [i \in 1..Len(vs.buf) |->
                      IF i <= vs.len - n THEN vs.buf[i + n] ELSE vs.buf[i]],
          len |-> vs.len - n]

\* The decoder's state after it read n bytes at buf and cut them.
Consume(ds, n) ==
    [ds EXCEPT !.vs = vstr_cut_head_bytes(ds.vs, n),
               !.oob = ds.oob \/ n > ds.vs.len]

Ok(val, ds) == [kind |-> "ok", val |-> val, ds |-> ds]

Raise(ds) == [kind |-> "err", val |-> VNone, ds |-> ds]

Crash(ds) == [kind |-> "crash", val |-> VNone, ds |-> ds]

cbor_load_int(ai, ds) ==
    IF ai < 24 THEN Ok(mp_obj_new_int(ai), ds)
    ELSE IF ai >= 24 /\ ai <= 27
    THEN LET n_bytes == Pow2(ai - 24)
         IN  Ok(VInt(FALSE, Strip(ReadBytes(ds.vs, n_bytes))), Consume(ds, n_bytes))
    ELSE Raise(ds)

cbor_load_uint(ai, ds) ==
    LET r == cbor_load_int(ai, ds)
    IN  IF r.kind = "ok" THEN Ok(VInt(TRUE, MagInc(r.val.mag)), r.ds) ELSE r

\* mp_obj_get_int raises OverflowError for a value that is no mp_int_t.
FitsMpInt(x) == MagLess(x.mag, <<128, 0, 0, 0, 0, 0, 0, 0>>)

\* Whether an object of that many bytes or items is more than the heap has.
ExceedsHeap(x) == MagLess(NatToMag(HeapLimit), x.mag)

\* LOAD_INT followed by mp_obj_new_bytes or mp_obj_new_str (tag) and the cut.
cbor_load_buffer(tag, ai, ds) ==
    LET r == cbor_load_int(ai, ds)
    IN  IF r.kind # "ok" THEN r
        ELSE IF ~FitsMpInt(r.val) \/ ExceedsHeap(r.val) THEN Raise(r.ds)
        ELSE LET loaded_int == MagToNat(r.val.mag)
             IN  Ok([t |-> tag, s |-> ReadBytes(r.ds.vs, loaded_int)],
                    Consume(r.ds, loaded_int))

cbor_load_bytes(ai, ds) == cbor_load_buffer("bytes", ai, ds)

cbor_load_text(ai, ds) == cbor_load_buffer("str", ai, ds)

cbor_unsupported_major_type(ai, ds) == Raise(ds)

\* HalfToDouble that gives every zero the sign +.
HalfToDouble_plus_zero(b0, b1) ==
    LET u16  == b0 * 256 + b1
        exp  == (Shr(u16, 10) % 32) - 15
        sign == Shr(b0, 7)
        mant == u16 % 1024
        k    == HighBit(mant)
        tmp  == (exp + 1023) * Pow2(20) + (b0 % 4) * Pow2(18) + b1 * Pow2(10)
    IN  IF exp = -15
        THEN IF mant = 0 THEN MakeDouble(0, 0, 0)
             ELSE MakeDouble(sign, k - 24 + 1023, (mant - Pow2(k)) * Pow2(23 - k))
        ELSE IF exp = 16
        THEN IF mant = 0
             THEN << sign * 128 + 127, 240, 0, 0, 0, 0, 0, 0 >>
             ELSE << sign * 128 + 127, 248, 0, 0, 0, 0, 0, 0 >>
        ELSE << sign * 128 + Shr(tmp, 24), Shr(tmp, 16) % 256, Shr(tmp, 8) % 256,
                tmp % 256, 0, 0, 0, 0 >>

\* The double of the half float whose two bytes are b0, b1.
HalfToDouble(b0, b1) ==
    LET u16  == b0 * 256 + b1
        exp  == (Shr(u16, 10) % 32) - 15
        sign == Shr(b0, 7)
        mant == u16 % 1024
        k    == HighBit(mant)
        tmp  == (exp + 1023) * Pow2(20) + (b0 % 4) * Pow2(18) + b1 * Pow2(10)
    IN  IF exp = -15
        THEN IF mant = 0 THEN MakeDouble(sign, 0, 0)
             ELSE MakeDouble(sign, k - 24 + 1023, (mant - Pow2(k)) * Pow2(23 - k))
        ELSE IF exp = 16
        THEN IF mant = 0
             THEN << sign * 128 + 127, 240, 0, 0, 0, 0, 0, 0 >>
             ELSE << sign * 128 + 127, 248, 0, 0, 0, 0, 0, 0 >>
        ELSE << sign * 128 + Shr(tmp, 24), Shr(tmp, 16) % 256, Shr(tmp, 8) % 256,
                tmp % 256, 0, 0, 0, 0 >>

cbor_load_half_float(ai, ds) ==
    IF ds.vs.len < 2 THEN Raise(ds)
    ELSE Ok(VFloat(HalfToDouble(Peek(ds.vs, 0), Peek(ds.vs, 1))), Consume(ds, 2))

cbor_load_float(ai, ds) ==
    IF ds.vs.len < 4 THEN Raise(ds)
    ELSE Ok(VFloat(FloatToDouble(ReadBytes(ds.vs, 4))), Consume(ds, 4))

cbor_load_double(ai, ds) ==
    IF ds.vs.len < 8 THEN Raise(ds)
    ELSE Ok(VFloat(ReadBytes(ds.vs, 8)), Consume(ds, 8))

\* cbor_load_special that takes every other simple value for None.
cbor_load_special_any_simple(ai, ds) ==
    CASE ai = 20 -> Ok(VBool(FALSE), ds)
      [] ai = 21 -> Ok(VBool(TRUE), ds)
      [] ai = 25 -> cbor_load_half_float(ai, ds)
      [] ai = 26 -> cbor_load_float(ai, ds)
      [] ai = 27 -> cbor_load_double(ai, ds)
      [] OTHER -> Ok(VNone, ds)

cbor_load_special(ai, ds) ==
    CASE ai = 20 -> Ok(VBool(FALSE), ds)
      [] ai = 21 -> Ok(VBool(TRUE), ds)
      [] ai = 22 \/ ai = 23 -> Ok(VNone, ds)
      [] ai = 25 -> cbor_load_half_float(ai, ds)
      [] ai = 26 -> cbor_load_float(ai, ds)
      [] ai = 27 -> cbor_load_double(ai, ds)
      [] OTHER -> Raise(ds)

\* mp_obj_dict_store: the value of a key the dict holds is replaced, a new
\* key is added after the others.
RECURSIVE mp_obj_dict_store(_, _, _)
mp_obj_dict_store(pairs, key, value) ==
    IF pairs = <<>> THEN << <<key, value>> >>
    ELSE IF Head(pairs)[1] = key THEN << <<key, value>> >> \o Tail(pairs)
    ELSE <<Head(pairs)>> \o mp_obj_dict_store(Tail(pairs), key, value)

RECURSIVE cbor_loads(_, _)
RECURSIVE LoadItems(_, _, _, _, _)
RECURSIVE LoadPairs(_, _, _, _, _)

\* The loop of cbor_load_list from index i on; depth counts the cbor_loads
\* calls on the stack.
LoadItems(count, i, items, ds, depth) ==
    IF i >= count THEN Ok(VList(items), ds)
    ELSE LET r == cbor_loads(ds, depth + 1)
         IN  IF r.kind # "ok" THEN r
             ELSE IF i >= HeapLimit THEN Raise(r.ds)
             ELSE LoadItems(count, i + 1, Append(items, r.val), r.ds, depth)

\* The number of rounds a loop over a loaded count makes before the heap
\* is exhausted.
LoopCount(x) == IF ExceedsHeap(x) THEN HeapLimit + 1 ELSE MagToNat(x.mag)

cbor_load_list(ai, ds, depth) ==
    LET r == cbor_load_int(ai, ds)
    IN  IF r.kind # "ok" THEN r
        ELSE IF ~FitsMpInt(r.val) THEN Raise(r.ds)
        ELSE LoadItems(LoopCount(r.val), 0, <<>>, r.ds, depth)

\* The loop of cbor_load_dict from index i on.
LoadPairs(count, i, pairs, ds, depth) ==
    IF i >= count THEN Ok(VDict(pairs), ds)
    ELSE LET k == cbor_loads(ds, depth + 1)
         IN  IF k.kind # "ok" THEN k
             ELSE LET v == cbor_loads(k.ds, depth + 1)
                  IN  IF v.kind # "ok" THEN v
                      ELSE IF i >= HeapLimit THEN Raise(v.ds)
                      ELSE LoadPairs(count, i + 1,
                                     mp_obj_dict_store(pairs, k.val, v.val),
                                     v.ds, depth)

cbor_load_dict(ai, ds, depth) ==
    LET r == cbor_load_int(ai, ds)
    IN  IF r.kind # "ok" THEN r
        ELSE IF ~FitsMpInt(r.val) THEN Raise(r.ds)
        ELSE LoadPairs(LoopCount(r.val), 0, <<>>, r.ds, depth)

\* load_functions_map[mt]._func(ai, data_vstr).
load_function(mt, ai, ds, depth) ==
    CASE mt = 0 -> cbor_load_int(ai, ds)
      [] mt = 1 -> cbor_load_uint(ai, ds)
      [] mt = 2 -> cbor_load_bytes(ai, ds)
      [] mt = 3 -> cbor_load_text(ai, ds)
      [] mt = 4 -> cbor_load_list(ai, ds, depth)
      [] mt = 5 -> cbor_load_dict(ai, ds, depth)
      [] mt = 6 -> cbor_unsupported_major_type(ai, ds)
      [] mt = 7 -> cbor_load_special(ai, ds)

\* cbor_loads as call number `depth` on the stack.
cbor_loads(ds, depth) ==
    IF depth > StackLimit THEN Crash(ds)
    ELSE LET fb == Peek(ds.vs, 0)
             mt == Shr(fb, 5)
             ai == fb % 32
         IN  load_function(mt, ai,
                           [Consume(ds, 1) EXCEPT !.hdrs = Append(ds.hdrs, fb)],
                           depth)

\* cbor_decode that raises when bytes are left after the item.
cbor_decode_whole_buffer(bytes) ==
    LET r == cbor_loads([vs |-> [buf |-> bytes, len |-> Len(bytes)],
                         oob |-> FALSE, hdrs |-> <<>>], 1)
    IN  IF r.kind = "ok" /\ r.ds.vs.len > 0 THEN Raise(r.ds) ELSE r

\* cbor_decode: the bytes are copied into a fresh vstr and one item is
\* loaded.
cbor_decode(bytes) ==
    cbor_loads([vs |-> [buf |-> bytes, len |-> Len(bytes)],
                oob |-> FALSE, hdrs |-> <<>>], 1)

(***************************************************************************)
(* The values that are encoded.                                            *)
(***************************************************************************)
\* 0, 1, 10, the boundaries 23/24, 255/256, 65535/65536, 2^32-1/2^32, the
\* small-int boundary 2^62, 2^63, 2^64-1/2^64 and 2^72-1.
IntMags ==
    { <<>>, <<1>>, <<10>>, <<23>>, <<24>>, <<25>>, <<255>>, <<1, 0>>, <<1, 1>>,
      <<3, 232>>, <<255, 255>>, <<1, 0, 0>>, <<1, 0, 1>>,
      <<255, 255, 255, 255>>, <<1, 0, 0, 0, 0>>, <<1, 0, 0, 0, 1>>,
      <<63, 255, 255, 255, 255, 255, 255, 255>>,
      <<64, 0, 0, 0, 0, 0, 0, 0>>,
      <<64, 0, 0, 0, 0, 0, 0, 1>>,
      <<128, 0, 0, 0, 0, 0, 0, 0>>,
      <<191, 255, 255, 255, 255, 255, 255, 255>>,
      <<255, 255, 255, 255, 255, 255, 255, 255>>,
      <<1, 0, 0, 0, 0, 0, 0, 0, 0>>,
      <<1, 0, 0, 0, 0, 0, 0, 0, 1>>,
      <<255, 255, 255, 255, 255, 255, 255, 255, 255>> }

IntValues == { VInt(neg, m) : neg \in BOOLEAN, m \in IntMags } \ { VInt(TRUE, <<>>) }

\* Biased exponents: 0 (zero and double subnormals), 1, the float
\* subnormals (874..896), the float normals from 897 (2^-126), the half
\* subnormals (999..1008), the half normals 1009..1038 (2^-14..2^15), 1039,
\* 1150 (2^127), 1151, 2046 and 2047 (infinity and NaN).
DoubleExps ==
    { 0, 1, 874, 875, 896, 897, 999, 1000, 1008, 1009, 1023, 1038, 1039, 1150,
      1151, 2046, 2047 }

\* Mantissas, as the low 4 bits of i8[6] and i8[5]..i8[0]: zero; the top
\* bit; the lowest bit a half keeps and the one below it; the lowest bit a
\* float keeps and the one below it; the lowest bit; all the bits of a half,
\* of a float, of a double; and one that (float) rounds up with a carry.
DoubleMantissas ==
    { <<0, 0, 0, 0, 0, 0, 0>>, <<8, 0, 0, 0, 0, 0, 0>>, <<0, 4, 0, 0, 0, 0, 0>>,
      <<0, 2, 0, 0, 0, 0, 0>>, <<0, 0, 0, 32, 0, 0, 0>>, <<0, 0, 0, 16, 0, 0, 0>>,
      <<0, 0, 0, 0, 0, 0, 1>>, <<15, 252, 0, 0, 0, 0, 0>>,
      <<15, 255, 255, 224, 0, 0, 0>>, <<15, 255, 255, 255, 255, 255, 255>>,
      <<15, 255, 255, 240, 0, 0, 0>> }

DoubleOf(sign, e11, m) ==
    << sign * 128 + Shr(e11, 4), (e11 % 16) * 16 + m[1], m[2], m[3], m[4], m[5],
       m[6], m[7] >>

FloatValues ==
    { VFloat(DoubleOf(sign, e, m)) : sign \in {0, 1}, e \in DoubleExps,
                                     m \in DoubleMantissas }

Filled(n, b) == [i \in 1..n |-> b]

StringValues ==
    { [t |-> tag, s |-> s] :
             tag \in { "bytes", "str" },
             s \in { <<>>, <<97>>, <<97, 98, 99>>, Filled(23, 120), Filled(24, 121) } }

\* Shorthands for the containers below.
Nat1(n) == VInt(FALSE, NatToMag(n))

Neg1(n) == VInt(TRUE, NatToMag(n))

Text(s) == VStr(s)

One == DoubleOf(0, 1023, <<0, 0, 0, 0, 0, 0, 0>>)

Third == DoubleOf(0, 1021, <<5, 85, 85, 85, 85, 85, 85>>)

BigNeg == VInt(TRUE, <<64, 0, 0, 0, 0, 0, 0, 1>>)

BigPos == VInt(FALSE, <<191, 255, 255, 255, 255, 255, 255, 255>>)

ListValues ==
    { VList(<<>>),
      VList(<<Nat1(1)>>),
      VList(<<Nat1(1), Nat1(2), Nat1(3)>>),
      VList(<<Nat1(1), Nat1(1000)>>),
      VList(<<Nat1(1000)>>),
      VList(<<Nat1(100), Neg1(500)>>),
      VList(<<VList(<<>>)>>),
      VList(<<VList(<<Nat1(1)>>), Nat1(2)>>),
      VList(<<VList(<<Nat1(1), VList(<<Nat1(2), VList(<<Nat1(3)>>)>>)>>)>>),
      VList(<<VFloat(One), Text(<<97>>), VNone, VBool(TRUE)>>),
      VList(<<VBool(FALSE), VFloat(Third)>>),
      VList(<<Text(<<97>>), VFloat(DoubleOf(0, 1023, <<0, 2, 0, 0, 0, 0, 0>>))>>),
      VList(<<Text(<<97>>), VFloat(DoubleOf(1, 1024, <<8, 0, 0, 0, 0, 0, 0>>))>>),
      VList(<<VBytes(<<1, 2>>), BigPos>>),
      VList(<<VBytes(Filled(24, 7)), VBytes(<<>>)>>),
      VList(<<VDict(<<>>), VDict(<< <<Text(<<97>>), Nat1(1)>> >>)>>) }

DictValues ==
    { VDict(<<>>),
      VDict(<< <<Text(<<97>>), Nat1(1)>> >>),
      VDict(<< <<Text(<<98>>), Nat1(2)>>, <<Text(<<97>>), Nat1(1)>> >>),
      VDict(<< <<Nat1(10), Nat1(0)>>, <<Nat1(100), Nat1(1)>>, <<Neg1(1), Nat1(2)>>,
               <<Text(<<122>>), Nat1(3)>> >>),
      VDict(<< <<Text(<<97, 97>>), VBool(FALSE)>>, <<VBool(FALSE), VNone>>,
               <<VBytes(<<97>>), VFloat(One)>> >>),
      VDict(<< <<Nat1(1), VList(<<Nat1(2), Nat1(3)>>)>>,
               <<Nat1(2), VDict(<< <<Text(<<98>>), Nat1(2)>>,
                                   <<Text(<<97>>), Nat1(1)>> >>)>> >>),
      VDict(<< <<Text(<<107>>), VList(<<Nat1(1), Nat1(1000)>>)>>,
               <<Nat1(0), Nat1(0)>> >>),
      VDict(<< <<Nat1(1000), Nat1(1)>>, <<Nat1(70000), VFloat(Third)>> >>),
      VDict(<< <<BigNeg, Nat1(0)>>, <<BigPos, Nat1(1)>> >>) }

Values ==
    { VNone, VBool(FALSE), VBool(TRUE) } \cup IntValues \cup FloatValues
        \cup StringValues \cup ListValues \cup DictValues

(***************************************************************************)
(* The buffers that are decoded: an item followed by trailing bytes.       *)
(***************************************************************************)
\* Complete items of the supported kinds.
CompleteItems ==
    { <<0>>, <<23>>, <<24, 24>>, <<24, 255>>, <<25, 1, 0>>, <<26, 0, 1, 0, 0>>,
      <<27, 0, 0, 0, 1, 0, 0, 0, 0>>, <<27, 255, 255, 255, 255, 255, 255, 255, 255>>,
      <<32>>, <<55>>, <<56, 255>>, <<57, 255, 255>>, <<58, 0, 0, 0, 0>>,
      <<59, 128, 0, 0, 0, 0, 0, 0, 0>>,
      <<64>>, <<65, 97>>, <<67, 97, 98, 99>>, <<88, 2, 1, 2>>, <<89, 0, 1, 9>>,
      <<96>>, <<97, 97>>, <<99, 97, 98, 99>>, <<120, 1, 255>>,
      <<106, 48, 49, 50, 51, 52, 53, 54, 55, 56, 57>>,
      <<128>>, <<129, 0>>, <<130, 1, 2>>, <<131, 1, 2, 3>>, <<130, 129, 0, 2>>,
      <<152, 1, 0>>, <<153, 0, 2, 96, 64>>, <<130, 25, 3, 232, 1>>,
      <<129, 129, 129, 128>>, <<129, 129, 129, 129, 129, 129, 129, 0>>,
      <<160>>, <<161, 97, 97, 1>>, <<162, 1, 2, 3, 4>>, <<161, 1, 129, 2>>,
      <<162, 1, 0, 1, 5>>, <<184, 1, 246, 160>>, <<161, 97, 98, 161, 0, 245>>,
      <<244>>, <<245>>, <<246>>, <<247>>,
      <<249, 60, 0>>, <<249, 0, 1>>, <<249, 128, 0>>, <<249, 124, 0>>,
      <<249, 126, 1>>, <<249, 251, 255>>, <<250, 63, 128, 0, 0>>,
      <<250, 0, 0, 0, 1>>, <<251, 63, 240, 0, 0, 0, 0, 0, 0>>,
      <<251, 0, 0, 0, 0, 0, 0, 0, 1>>, <<130, 249, 60, 0, 250, 63, 128, 0, 1>> }

\* Items the buffer ends in the middle of: every proper prefix of a
\* complete item, the empty buffer among them.
TruncatedItems ==
    UNION { { SubSeq(b, 1, k) : k \in 0..(Len(b) - 1) } : b \in CompleteItems }

\* Items with a header byte the codec does not support, alone and nested.
UnsupportedItems ==
    { <<h>> : h \in { 28, 29, 30, 31, 60, 95, 126, 159, 191, 192, 193, 216, 223,
                      224, 240, 243, 248, 252, 253, 254, 255 } }
        \cup { <<129, 28>>, <<129, 192>>, <<130, 0, 248>>, <<161, 0, 255>>,
               <<161, 220, 0>>, <<130, 129, 31, 0>>, <<162, 1, 2, 95, 0>>,
               <<194, 64>>, <<248, 32>>, <<131, 1, 224, 250>> }

Items == CompleteItems \cup TruncatedItems \cup UnsupportedItems

Trails == { <<>>, <<0>>, <<255>>, <<129, 1>> }

(***************************************************************************)
(* The state machine.  pc is "value" (obj is to be encoded), "wire" (data  *)
(* holds the bytes to decode) or "done" (result holds what cbor_decode     *)
(* gave).  A behaviour either starts from a value, encodes it and decodes  *)
(* the bytes, or starts from a buffer item \o trail and decodes it.  heap  *)
(* is what uninitialised memory holds; canonical is whether the build      *)
(* defines MICROPY_PY_UCBOR_CANONICAL.                                     *)
(***************************************************************************)
NoObj == [t |-> "absent"]

NoBytes == <<-1>>

NoResult == [kind |-> "none"]

HeapPatterns == [0..(HeapPeriod - 1) -> JunkBytes]

InitValue ==
    /\ pc = "value"
    /\ canonical \in BOOLEAN
    /\ obj \in Values
    /\ item = <<>>
    /\ trail = <<>>
    /\ data = <<>>

InitWire ==
    /\ pc = "wire"
    /\ canonical = FALSE
    /\ obj = NoObj
    /\ item \in Items
    /\ trail \in Trails
    /\ data = item \o trail

Init ==
    /\ heap \in HeapPatterns
    /\ InitValue \/ InitWire
    /\ alt = NoBytes
    /\ result = NoResult
    /\ solo = NoResult

\* cbor_encode(obj).
Encode ==
    /\ pc = "value"
    /\ data' = cbor_encode(obj, canonical)
    /\ item' = data'
    /\ pc' = "wire"
    /\ UNCHANGED <<canonical, heap, obj, trail, alt, result, solo>>

IsPermutation(p, n) == \A i, j \in 1..n : p[i] = p[j] => i = j

\* cbor_encode of the dict obj with its pairs held in another order.
EncodePermuted ==
    /\ pc = "wire"
    /\ obj.t = "dict"
    /\ alt = NoBytes
    /\ \E p \in [1..Len(obj.pairs) -> 1..Len(obj.pairs)] :
          /\ IsPermutation(p, Len(obj.pairs))
          /\ alt' = cbor_encode(VDict([i \in 1..Len(obj.pairs) |-> obj.pairs[p[i]]]),
                                canonical)
    /\ UNCHANGED <<pc, canonical, heap, obj, item, trail, data, result, solo>>

\* cbor_decode(data).
Decode ==
    /\ pc = "wire"
    /\ result' = cbor_decode(data)
    /\ pc' = "done"
    /\ UNCHANGED <<canonical, heap, obj, item, trail, data, alt, solo>>

\* cbor_decode(item): the item without the bytes that trail it.
DecodeItem ==
    /\ obj = NoObj
    /\ solo = NoResult
    /\ solo' = cbor_decode(item)
    /\ UNCHANGED <<pc, canonical, heap, obj, item, trail, data, alt, result>>

Next == Encode \/ EncodePermuted \/ Decode \/ DecodeItem

Spec == Init /\ [][Next]_vars

(***************************************************************************)
(* Decoding of half floats: cbor_decode of the three bytes f9 b0 b1, for   *)
(* every b0 and b1, alone or followed by one more byte.                    *)
(***************************************************************************)
HalfItems == { <<249, b0, b1>> : b0 \in Byte, b1 \in Byte }

HalfTrails == { <<>>, <<0>> }

InitHalf ==
    /\ pc = "wire"
    /\ canonical = FALSE
    /\ heap \in { [i \in 0..(HeapPeriod - 1) |-> j] : j \in JunkBytes }
    /\ obj = NoObj
    /\ item \in HalfItems
    /\ trail \in HalfTrails
    /\ data = item \o trail
    /\ alt = NoBytes
    /\ result = NoResult
    /\ solo = NoResult

NextHalf == Decode

SpecHalf == InitHalf /\ [][NextHalf]_vars

(***************************************************************************)
(* What the claims speak of: the well-formed items of the wire format, the *)
(* encoding of an argument in its smallest form, the classes of doubles,   *)
(* and equality of values.                                                 *)
(***************************************************************************)
RefUnsupported(fb) ==
    \/ fb % 32 >= 28
    \/ Shr(fb, 5) = 6
    \/ Shr(fb, 5) = 7 /\ fb % 32 \notin {20, 21, 22, 23, 25, 26, 27}

\* The number of bytes that follow the header byte fb as its argument or,
\* for major type 7, as its payload.
RefArgLen(fb) == IF fb % 32 < 24 THEN 0 ELSE Pow2((fb % 32) - 24)

\* The argument of the header at b[pos], cut off above the buffer's length:
\* no complete item of b has a length or a count that large.
RefArg(b, pos) ==
    LET m == Strip(SubSeq(b, pos + 1, pos + RefArgLen(b[pos])))
    IN  IF b[pos] % 32 < 24 THEN b[pos] % 32
        ELSE IF Len(m) > 2 \/ MagToNat(m) > Len(b) THEN Len(b) + 1
        ELSE MagToNat(m)

\* RefItemEnd(b, pos): the index of the last byte of the item that starts at
\* b[pos]; -1 when b ends before the item is complete; -2 when the item, or
\* an item nested in it, has a header that is not supported.
RECURSIVE RefItemEnd(_, _)
RECURSIVE RefItemsEnd(_, _, _)
RefItemEnd(b, pos) ==
    IF pos > Len(b) THEN -1
    ELSE IF RefUnsupported(b[pos]) THEN -2
    ELSE IF pos + RefArgLen(b[pos]) > Len(b) THEN -1
    ELSE LET mt  == Shr(b[pos], 5)
             e   == pos + RefArgLen(b[pos])
             arg == RefArg(b, pos)
         IN  CASE mt \in {0, 1, 7} -> e
               [] mt \in {2, 3} -> IF e + arg > Len(b) THEN -1 ELSE e + arg
               [] mt = 4 -> RefItemsEnd(b, e, arg)
               [] mt = 5 -> RefItemsEnd(b, e, 2 * arg)

\* The end of k items that follow b[e].
RefItemsEnd(b, e, k) ==
    IF k = 0 THEN e
    ELSE LET r == RefItemEnd(b, e + 1)
         IN  IF r < 0 THEN r ELSE RefItemsEnd(b, r, k - 1)

\* b is exactly one complete item / b ends in the middle of an item.
RefComplete(b) == RefItemEnd(b, 1) = Len(b)

RefTruncated(b) == RefItemEnd(b, 1) = -1

\* The deepest nesting of array and map headers in a complete item: the
\* number of cbor_loads calls that are on the stack at once.
RECURSIVE RefDepth(_, _)
RECURSIVE RefDepthItems(_, _, _)
RefDepth(b, pos) ==
    LET mt == Shr(b[pos], 5)
        e  == pos + RefArgLen(b[pos])
    IN  IF mt = 4 THEN 1 + RefDepthItems(b, e, RefArg(b, pos))
        ELSE IF mt = 5 THEN 1 + RefDepthItems(b, e, 2 * RefArg(b, pos))
        ELSE 1

RefDepthItems(b, e, k) ==
    IF k = 0 THEN 0
    ELSE LET d    == RefDepth(b, e + 1)
             rest == RefDepthItems(b, RefItemEnd(b, e + 1), k - 1)
         IN  IF d > rest THEN d ELSE rest

\* Major type mt with the argument arg (a magnitude below 2^64) in the
\* smallest of the five forms.
RefHead(mt, arg) ==
    IF MagLeq(arg, <<23>>) THEN << mt * 32 + MagToNat(arg) >>
    ELSE IF Len(arg) <= 1 THEN << mt * 32 + 24 >> \o arg
    ELSE IF Len(arg) <= 2 THEN << mt * 32 + 25 >> \o BigEndian(arg, 2)
    ELSE IF Len(arg) <= 4 THEN << mt * 32 + 26 >> \o BigEndian(arg, 4)
    ELSE << mt * 32 + 27 >> \o BigEndian(arg, 8)

RefIntEncoding(x) ==
    IF x.neg THEN RefHead(1, MagDec(x.mag)) ELSE RefHead(0, x.mag)

RECURSIVE Concat(_)
Concat(ss) == IF ss = <<>> THEN <<>> ELSE Head(ss) \o Concat(Tail(ss))

\* The fields of a double: biased exponent, and whether the low k bits of
\* the 52-bit mantissa are all zero.
RefExpField(d) == (d[1] % 128) * 16 + Shr(d[2], 4)

RefLowBitsZero(d, k) ==
    \A j \in 0..6 :
        LET byte == IF j = 6 THEN d[2] % 16 ELSE d[8 - j]
        IN  IF 8 * (j + 1) <= k THEN byte = 0
            ELSE IF 8 * j < k THEN byte % Pow2(k - 8 * j) = 0
            ELSE TRUE

RefIsZero(d) == RefExpField(d) = 0 /\ RefLowBitsZero(d, 52)

RefIsInf(d) == RefExpField(d) = 2047 /\ RefLowBitsZero(d, 52)

RefIsNaN(d) == RefExpField(d) = 2047 /\ ~RefLowBitsZero(d, 52)

\* A normal half: 2^-14 <= |d| < 2^16 with 10 mantissa bits.  A subnormal
\* half: a multiple of 2^-24 below 2^-14.
RefHalfNormal(d) ==
    RefExpField(d) \in 1009..1038 /\ RefLowBitsZero(d, 42)

RefHalfSubnormal(d) ==
    RefExpField(d) \in 999..1008 /\ RefLowBitsZero(d, 52 - (RefExpField(d) - 999))

\* A normal float: 2^-126 <= |d| < 2^128 with 23 mantissa bits.  A
\* subnormal float: a multiple of 2^-149 below 2^-126.
RefSingleNormal(d) ==
    RefExpField(d) \in 897..1150 /\ RefLowBitsZero(d, 29)

RefSingleSubnormal(d) ==
    RefExpField(d) \in 874..896 /\ RefLowBitsZero(d, 52 - (RefExpField(d) - 874))

RefHalfExact(d) ==
    RefIsZero(d) \/ RefIsInf(d) \/ RefHalfNormal(d) \/ RefHalfSubnormal(d)

RefSingleExact(d) ==
    RefIsZero(d) \/ RefIsInf(d) \/ RefSingleNormal(d) \/ RefSingleSubnormal(d)

\* The additional information of a float item: 25, 26 or 27 when the item
\* is a header of major type 7 with 2, 4 or 8 bytes after it; else 0.
RefFloatForm(b) ==
    IF /\ b # <<>>
       /\ Shr(b[1], 5) = 7
       /\ b[1] % 32 \in {25, 26, 27}
       /\ Len(b) = 1 + RefArgLen(b[1])
    THEN b[1] % 32
    ELSE 0

\* Equality of values: a dict is its set of pairs, whatever their order.
RECURSIVE RefNormal(_)
RefNormal(v) ==
    CASE v.t = "list" -> [t |-> "list", items |-> [i \in 1..Len(v.items) |-> RefNormal(v.items[i])]]
      [] v.t = "dict" -> [t |-> "dict",
                          pairs |-> { << RefNormal(v.pairs[i][1]), RefNormal(v.pairs[i][2]) >> :
                                       i \in 1..Len(v.pairs) }]
      [] OTHER -> v

RefValueEq(a, b) == RefNormal(a) = RefNormal(b)

Encoded == obj # NoObj /\ pc \in {"wire", "done"}

RoundTripped == obj # NoObj /\ pc = "done"

Decoded == obj = NoObj /\ pc = "done"

(***************************************************************************)
(* The claims.                                                             *)
(***************************************************************************)

\* C1: a value built from None, booleans, integers, floats other than NaN,
\* byte strings, text strings, lists and dicts decodes, after encoding, to a
\* value equal to itself.
C1_RoundTrip ==
    RoundTripped => result.kind = "ok" /\ RefValueEq(result.val, obj)

\* C2: a buffer that ends in the middle of an item makes decode raise an
\* error, and decode reads no byte past the end of the buffer.
C2_TruncatedRaises ==
    (Decoded /\ RefTruncated(data)) => result.kind = "err" /\ ~result.ds.oob

\* C3: the encoding of a list is the array header for its length followed
\* by the encodings its elements have as top-level values, in order.
C3_ListCompositional ==
    (Encoded /\ obj.t = "list") =>
        item = RefHead(4, NatToMag(Len(obj.items)))
                   \o Concat([i \in 1..Len(obj.items) |->
                                  cbor_encode(obj.items[i], canonical)])

\* C4: an integer of magnitude below 2^64 is encoded under major type 0 when
\* it is not negative and under major type 1, with argument -1 - n, when it
\* is, in the smallest form that holds the argument.
C4_MinimalInt ==
    (Encoded /\ obj.t = "int" /\ Len(obj.mag) <= 8) => item = RefIntEncoding(obj)

\* C5: an integer outside the small-integer range of the host decodes, after
\* encoding, to the same integer.
C5_BigIntRoundTrip ==
    (RoundTripped /\ obj.t = "int" /\ ~MP_OBJ_IS_SMALL_INT(obj)) =>
        result.kind = "ok" /\ result.val = obj

\* C6: a double that is not a NaN (a zero, a normal, a subnormal or an
\* infinity of either sign) decodes, after encoding, to the same double,
\* bit for bit.
C6_FloatExact ==
    (RoundTripped /\ obj.t = "float" /\ ~RefIsNaN(obj.bits)) =>
        result.kind = "ok" /\ result.val = obj

\* C7 as stated: a double that a half holds exactly is emitted in the 2-byte
\* form; one that a half does not hold but a float does, in the 4-byte form;
\* the 8-byte form is emitted only for a double that neither holds.
C7_Narrowing ==
    (Encoded /\ obj.t = "float" /\ ~RefIsNaN(obj.bits)) =>
        LET d == obj.bits
            f == RefFloatForm(item)
        IN  /\ RefHalfExact(d) => f = 25
            /\ (~RefHalfExact(d) /\ RefSingleExact(d)) => f = 26
            /\ f = 27 => ~RefHalfExact(d) /\ ~RefSingleExact(d)

\* C7: a double that is a zero, an infinity or a normal half is emitted in
\* the 2-byte form; any other double that is a normal float, a subnormal
\* half among them, in the 4-byte form; the 8-byte form is emitted only for
\* a double that is none of these, a subnormal float among them.
C7_NarrowingOfNormals ==
    (Encoded /\ obj.t = "float" /\ ~RefIsNaN(obj.bits)) =>
        LET d == obj.bits
            f == RefFloatForm(item)
            h == RefIsZero(d) \/ RefIsInf(d) \/ RefHalfNormal(d)
        IN  /\ h => f = 25
            /\ (~h /\ RefSingleNormal(d)) => f = 26
            /\ f = 27 => ~h /\ ~RefSingleNormal(d)
            /\ RefHalfSubnormal(d) => f = 26
            /\ (RefSingleSubnormal(d) /\ ~RefHalfSubnormal(d)) => f = 27

\* A subnormal half was emitted in the 4-byte form.
C7_SubnormalHalfAsFloat ==
    /\ Encoded
    /\ obj.t = "float"
    /\ RefHalfSubnormal(obj.bits)
    /\ RefFloatForm(item) = 26

\* C8: with canonical encoding, two dicts that hold the same pairs in
\* different orders are encoded to the same bytes.
C8_CanonicalDeterminism ==
    (canonical /\ alt # NoBytes) => alt = item

\* C9: when a complete item, nested no deeper than the stack holds, is
\* followed by more bytes, decode succeeds, gives the value it gives for the
\* item alone, and takes the item's bytes and no others.
C9_TrailingIgnored ==
    (Decoded /\ solo # NoResult /\ RefComplete(item)
         /\ RefDepth(item, 1) <= StackLimit) =>
        /\ result.kind = "ok"
        /\ solo.kind = "ok"
        /\ result.val = solo.val
        /\ result.ds.vs.len = Len(trail)
        /\ SubSeq(result.ds.vs.buf, 1, Len(trail)) = trail

\* A list with an element, followed by two bytes, was decoded.
C9_ListThenTrail ==
    /\ Decoded
    /\ solo # NoResult
    /\ RefComplete(item)
    /\ Len(trail) = 2
    /\ result.kind = "ok"
    /\ result.val.t = "list"
    /\ result.val.items # <<>>

\* C10: when decode reads the header of an item, at the top or nested, and
\* the header has additional information 28..31, or major type 6, or major
\* type 7 with additional information other than 20..23 and 25..27, decode
\* raises an error and returns no value.
C10_UnsupportedRejected ==
    (pc = "done" /\ \E i \in 1..Len(result.ds.hdrs) :
                        RefUnsupported(result.ds.hdrs[i])) =>
        result.kind = "err" /\ result.val = VNone

\* Decode raised at an unsupported header nested in a container.
C10_NestedUnsupported ==
    /\ Decoded
    /\ Len(result.ds.hdrs) >= 2
    /\ RefUnsupported(result.ds.hdrs[Len(result.ds.hdrs)])
    /\ result.ds.hdrs[Len(result.ds.hdrs)] = 248
    /\ result.kind = "err"

\* The double with sign s, exponent field e11 and the high 20 bits m20 of
\* the mantissa, the low 32 bits being zero.
RefDouble(s, e11, m20) ==
    << s * 128 + Shr(e11, 4), (e11 % 16) * 16 + Shr(m20, 16),
       Shr(m20, 8) % 256, m20 % 256, 0, 0, 0, 0 >>

RefHalfSign(h) == Shr(h, 15)

RefHalfExp(h) == Shr(h, 10) % 32

RefHalfMant(h) == h % 1024

RefHalfIsNaN(h) == RefHalfExp(h) = 31 /\ RefHalfMant(h) # 0

\* Index of the highest set bit of m, for 0 < m < 1024.
RefTopBit(m) == CHOOSE k \in 0..9 : Pow2(k) <= m /\ m < Pow2(k + 1)

\* The binary64 that has the value of the binary16 h, for h not a NaN: a
\* zero keeps its sign; a subnormal m * 2^-24 is the normal double with
\* exponent k - 24, k the highest set bit of m; an infinity is an infinity;
\* a normal keeps sign, exponent and mantissa.
RefHalfPromote(h) ==
    LET s == RefHalfSign(h)
        e == RefHalfExp(h)
        m == RefHalfMant(h)
    IN  IF e = 0
        THEN IF m = 0 THEN RefDouble(s, 0, 0)
             ELSE RefDouble(s, RefTopBit(m) - 24 + 1023,
                            (m - Pow2(RefTopBit(m))) * Pow2(20 - RefTopBit(m)))
        ELSE IF e = 31 THEN RefDouble(s, 2047, m * 1024)
        ELSE RefDouble(s, e - 15 + 1023, m * 1024)

\* The promotion of a NaN with its quiet bit set.
RefQuieted(d) == [d EXCEPT ![2] = 240 + 8 + (d[2] % 8)]

\* The half float of the item f9 b0 b1.
RefHalfOf(b) == b[2] * 256 + b[3]

HalfDecoded == Decoded /\ Len(item) = 3 /\ item[1] = 249

\* C11 as stated: the double decoded from f9 b0 b1 is the binary64
\* promotion of the half b0 b1; a NaN keeps its sign and its payload bits,
\* with the quiet bit as it was or set.
C11_HalfPromotion ==
    HalfDecoded =>
        /\ result.kind = "ok"
        /\ result.val.t = "float"
        /\ \/ result.val.bits = RefHalfPromote(RefHalfOf(item))
           \/ /\ RefHalfIsNaN(RefHalfOf(item))
              /\ result.val.bits = RefQuieted(RefHalfPromote(RefHalfOf(item)))

\* C11: the double decoded from f9 b0 b1 is the binary64 promotion of the
\* half b0 b1 when the half is a zero, a subnormal, a normal or an infinity;
\* a NaN decodes to the quiet NaN with the sign of the half and no payload.
C11_HalfPromotionQuietNaN ==
    HalfDecoded =>
        /\ result.kind = "ok"
        /\ result.val.t = "float"
        /\ result.val.bits =
               IF RefHalfIsNaN(RefHalfOf(item))
               THEN RefDouble(RefHalfSign(RefHalfOf(item)), 2047, Pow2(19))
               ELSE RefHalfPromote(RefHalfOf(item))

\* The negative NaN fe 01, with a payload, was decoded.
C11_NaNWithPayload ==
    /\ HalfDecoded
    /\ item = <<249, 254, 1>>
    /\ result.kind = "ok"
    /\ result.val.bits[1] = 255

\* a before b in lexicographic order.
RefLexLess(a, b) ==
    \/ Len(a) < Len(b) /\ a = SubSeq(b, 1, Len(a))
    \/ \E i \in 1..Len(a) :
          /\ i <= Len(b)
          /\ a[i] < b[i]
          /\ \A j \in 1..(i - 1) : a[j] = b[j]

\* (first byte, length, bytes) of the encoded key a is not above that of b.
RefKeyLeq(a, b) ==
    \/ a[1] < b[1]
    \/ /\ a[1] = b[1]
       /\ \/ Len(a) < Len(b)
          \/ Len(a) = Len(b) /\ (a = b \/ RefLexLess(a, b))

\* bytes is the map header for the pairs, then every pair once, as the
\* top-level encoding of its key and the top-level encoding of its value,
\* the keys ascending.
RefCanonicalLayout(bytes, pairs) ==
    LET n   == Len(pairs)
        key == [i \in 1..n |-> cbor_encode(pairs[i][1], TRUE)]
        val == [i \in 1..n |-> cbor_encode(pairs[i][2], TRUE)]
    IN  \E p \in [1..n -> 1..n] :
            /\ \A i, j \in 1..n : p[i] = p[j] => i = j
            /\ \A i \in 1..(n - 1) : RefKeyLeq(key[p[i]], key[p[i + 1]])
            /\ bytes = RefHead(5, NatToMag(n))
                           \o Concat([i \in 1..n |-> key[p[i]] \o val[p[i]]])

\* C12: with canonical encoding, the encoding of a dict is the map header
\* for its number of pairs, then the pairs as (encoded key, encoded value),
\* ascending by (first byte of the encoded key, length of the encoded key,
\* encoded key); the bytes emitted are those that were sorted.
C12_CanonicalLayout ==
    (Encoded /\ canonical /\ obj.t = "dict") =>
        /\ RefCanonicalLayout(item, obj.pairs)
        /\ alt # NoBytes => RefCanonicalLayout(alt, obj.pairs)

\* A dict of three pairs or more was encoded with its pairs in another
\* order than the dict held them.
C12_PairsReordered ==
    /\ Encoded
    /\ canonical
    /\ obj.t = "dict"
    /\ Len(obj.pairs) >= 3
    /\ item # cbor_encode(obj, FALSE)
    /\ RefCanonicalLayout(item, obj.pairs)

\* C13: decode of a buffer ends with a value or an error, after no more
\* reads of an item header than the buffer has bytes (one read for the
\* empty buffer) and with no more calls of cbor_loads on the stack than the
\* buffer has bytes.
C13_DecodeTerminates ==
    Decoded =>
        /\ result.kind = "crash" => StackLimit + 1 <= Len(data)
        /\ Len(result.ds.hdrs) <= Len(data) + 1

====
